---- MODULE Spec2Model ----
(***************************************************************************)
(* A model of the news pipeline of New_Fetch:                              *)
(*   news_fetcher.fetch_news        (the cached search-service adapter),   *)
(*   ai_processor.analyze_article   (the reply parser with its defaults),  *)
(*   ai_processor.batch_analyze_articles and the loop of app.main.         *)
(*                                                                         *)
(* Text is a sequence of tokens, each token a string that the regular      *)
(* expressions of analyze_article treat as a unit: a marker ("SUMMARY:"),  *)
(* one whitespace character, a word, a run of digits, a punctuation mark.  *)
(* The text a sequence stands for is the concatenation of its tokens.      *)
(* Descriptions and titles are sequences of one-character tokens, so that  *)
(* a slice [:n] is SubSeq.                                                 *)
(***************************************************************************)
EXTENDS Integers, Sequences, FiniteSets, TLC

VARIABLES
    article,      \* analyze_article under test: its article argument
    reply,        \* analyze_article under test: what the Gemini client does
    analysis,     \* analyze_article under test: what the call produced
    upstream,     \* fetch_news under test: what the search service does
    fetched,      \* fetch_news under test: what the call produced
    pc,           \* where the run is
    caller,       \* who runs the loop: "batch" (batch_analyze_articles) or "main"
    articles,     \* the sequence the loop goes through
    idx,          \* how many of them the loop has been through
    analyzed,     \* the loop's output so far
    outcomes,     \* what the Gemini client did in each analyze_article call so far
    genCalls,     \* the model.generate_content invocations so far, by article index
    cache,        \* st.cache_data's entries for fetch_news, by argument tuple
    lastExec,     \* by argument tuple: the last execution of fetch_news's body
    call,         \* the last call of fetch_news that main made
    requests,     \* the HTTP requests made so far
    runs          \* the runs of main's analysis section so far

Min(S) == CHOOSE x \in S : \A y \in S : x <= y
Max(S) == CHOOSE x \in S : \A y \in S : x >= y

(***************************************************************************)
(* Bounds of the model.                                                    *)
(***************************************************************************)
MaxReplyLen == 3
MaxResults == 2
MaxArticles == 3
MaxRuns == 3

(***************************************************************************)
(* Python values.                                                          *)
(***************************************************************************)
\* Python's None (a missing key read with dict.get, a JSON null, a function
\* returning nothing).
None == [t |-> "none"]

\* s[:n] for n >= 0
Slice(s, n) == SubSeq(s, 1, IF Len(s) < n THEN Len(s) ELSE n)

\* the classes an exception of class exc is an instance of
Bases(exc) ==
    CASE exc = "Timeout"         -> {"Timeout", "RequestException", "Exception"}
      [] exc = "ConnectionError" -> {"ConnectionError", "RequestException", "Exception"}
      [] exc = "HTTPError"       -> {"HTTPError", "RequestException", "Exception"}
      [] OTHER                   -> {exc, "Exception"}

\* {**a, **b}
Merge(a, b) ==
    [k \in (DOMAIN a) \cup (DOMAIN b) |-> IF k \in DOMAIN b THEN b[k] ELSE a[k]]

(***************************************************************************)
(* The token alphabet of a model reply.                                    *)
(***************************************************************************)
SummaryMarkers   == {"SUMMARY:", "summary:"}
SentimentMarkers == {"SENTIMENT:"}
ImpactMarkers    == {"IMPACT_SCORE:", "Impact Score:"}
SpaceTokens      == {"\n"}
WordTokens       == {"positive", "NEGATIVE", "Tense", "neutral", "mixed"}
DigitTokens      == {"0", "7", "15"}
PunctTokens      == {"-"}

Tokens ==
    SummaryMarkers \cup SentimentMarkers \cup ImpactMarkers \cup SpaceTokens
        \cup WordTokens \cup DigitTokens \cup PunctTokens

\* \s
IsSpace(t) == t \in SpaceTokens

\* a token made of \w characters only
IsAllWord(t) == t \in WordTokens \cup DigitTokens

\* the longest prefix of a token that \w+ matches
WordPrefix(t) ==
    CASE t \in WordTokens \cup DigitTokens -> t
      [] t = "SUMMARY:"      -> "SUMMARY"
      [] t = "summary:"      -> "summary"
      [] t = "SENTIMENT:"    -> "SENTIMENT"
      [] t = "IMPACT_SCORE:" -> "IMPACT_SCORE"
      [] t = "Impact Score:" -> "Impact"
      [] OTHER               -> ""

\* int() of a digit token, and the number of its digits
DigitValue(t)  == CASE t = "0" -> 0 [] t = "7" -> 7 [] t = "15" -> 15
DigitLength(t) == CASE t = "0" -> 1 [] t = "7" -> 1 [] t = "15" -> 2

\* str.lower() of a piece \w+ can match
LowerPiece(s) ==
    CASE s = "NEGATIVE"     -> "negative"
      [] s = "Tense"        -> "tense"
      [] s = "SUMMARY"      -> "summary"
      [] s = "SENTIMENT"    -> "sentiment"
      [] s = "IMPACT_SCORE" -> "impact_score"
      [] s = "Impact"       -> "impact"
      [] s \in {"positive", "neutral", "mixed", "summary", "0", "7", "15"} -> s

\* str.capitalize() of a normalized sentiment
Capitalize(s) ==
    CASE s = "positive" -> "Positive"
      [] s = "negative" -> "Negative"
      [] s = "tense"    -> "Tense"
      [] s = "neutral"  -> "Neutral"

RECURSIVE Join(_)
\* the string a sequence of pieces stands for
Join(ps) == IF ps = <<>> THEN "" ELSE Head(ps) \o Join(Tail(ps))

\* str.strip()
Strip(t) ==
    LET keep == {i \in 1..Len(t) : ~IsSpace(t[i])}
    IN  IF keep = {} THEN <<>> ELSE SubSeq(t, Min(keep), Max(keep))

RECURSIVE SkipSpace(_, _)
\* where a greedy \s* that starts at token i ends
SkipSpace(t, i) ==
    IF i <= Len(t) /\ IsSpace(t[i]) THEN SkipSpace(t, i + 1) ELSE i

(***************************************************************************)
(* re.search(r'SUMMARY:\s*(.+?)(?=SENTIMENT:|$)', text, DOTALL|IGNORECASE) *)
(***************************************************************************)
\* The attempt at the marker at token p. \s* takes the whole whitespace run;
\* .+? then takes at least one character, so a SENTIMENT: marker standing
\* right there is entered, and the group runs on to the next SENTIMENT:
\* marker or the end. With nothing left after the run, \s* gives its last
\* character back to .+?; with no run either, the attempt fails.
SummaryMatchAt(t, p) ==
    LET n == Len(t)
        j == SkipSpace(t, p + 1)
    IN  IF j <= n
        THEN LET stops == {k \in (j + 1)..n : t[k] \in SentimentMarkers}
                 k == IF stops = {} THEN n + 1 ELSE Min(stops)
             IN  [matched |-> TRUE, group |-> SubSeq(t, j, k - 1)]
        ELSE IF j > p + 1
        THEN [matched |-> TRUE, group |-> SubSeq(t, n, n)]
        ELSE [matched |-> FALSE, group |-> <<>>]

ExtractSummary(t) ==
    LET ps == {p \in 1..Len(t) :
                  t[p] \in SummaryMarkers /\ SummaryMatchAt(t, p).matched}
    IN  IF ps = {} THEN <<"Summary not available.">>
        ELSE Strip(SummaryMatchAt(t, Min(ps)).group)

(***************************************************************************)
(* re.search(r'SENTIMENT:\s*(\w+)', text, IGNORECASE)                      *)
(***************************************************************************)
RECURSIVE WordRun(_, _)
\* the pieces \w+ matches from token j on
WordRun(t, j) ==
    IF j > Len(t) THEN <<>>
    ELSE IF IsAllWord(t[j]) THEN <<t[j]>> \o WordRun(t, j + 1)
    ELSE IF WordPrefix(t[j]) # "" THEN <<WordPrefix(t[j])>>
    ELSE <<>>

SentimentMatchAt(t, p) == WordRun(t, SkipSpace(t, p + 1))

ExtractSentiment(t) ==
    LET ps == {p \in 1..Len(t) :
                  t[p] \in SentimentMarkers /\ SentimentMatchAt(t, p) # <<>>}
        run == SentimentMatchAt(t, Min(ps))
    IN  IF ps = {} THEN "neutral"
        ELSE Join([i \in 1..Len(run) |-> LowerPiece(run[i])])

NormalizeSentiment(s) ==
    IF s \notin {"positive", "negative", "tense", "neutral"} THEN "neutral" ELSE s

(***************************************************************************)
(* re.search(r'IMPACT[_ ]SCORE:\s*(\d+)', text, IGNORECASE)                *)
(***************************************************************************)
RECURSIVE DigitRun(_, _)
\* the digit tokens \d+ matches from token j on
DigitRun(t, j) ==
    IF j <= Len(t) /\ t[j] \in DigitTokens
    THEN <<t[j]>> \o DigitRun(t, j + 1)
    ELSE <<>>

RECURSIVE Pow10(_)
Pow10(n) == IF n = 0 THEN 1 ELSE 10 * Pow10(n - 1)

RECURSIVE IntOf(_)
\* int() of a run of digit tokens
IntOf(run) ==
    IF run = <<>> THEN 0
    ELSE LET last == run[Len(run)]
         IN  IntOf(SubSeq(run, 1, Len(run) - 1)) * Pow10(DigitLength(last))
                 + DigitValue(last)

ScoreMatchAt(t, p) == DigitRun(t, SkipSpace(t, p + 1))

ExtractScore(t) ==
    LET ps == {p \in 1..Len(t) :
                  t[p] \in ImpactMarkers /\ ScoreMatchAt(t, p) # <<>>}
    IN  IF ps = {} THEN 5 ELSE IntOf(ScoreMatchAt(t, Min(ps)))

\* ClampScore without its lower bound: min(10, impact_score)
ClampScoreUpperOnly(n) == IF n < 10 THEN n ELSE 10

\* max(1, min(10, impact_score))
ClampScore(n) ==
    LET m == IF n < 10 THEN n ELSE 10
    IN  IF m > 1 THEN m ELSE 1
(***************************************************************************)
(* analyze_article                                                         *)
(***************************************************************************)
\* the result of line 48-53: the model call succeeded and returned no text
EmptyReplyResult ==
    [summary |-> <<"Analysis unavailable.">>,
     sentiment |-> "neutral",
     impact_score |-> 5]

\* lines 55-81: the parse of a non-empty reply
ParseReply(text) ==
    LET analysis_text == Strip(text)
    IN  [summary |-> ExtractSummary(analysis_text),
         sentiment |-> Capitalize(NormalizeSentiment(ExtractSentiment(analysis_text))),
         impact_score |-> ClampScore(ExtractScore(analysis_text))]

\* FailureResult with the whole description and no slice
FailureResultUnsliced(art) ==
    [summary |-> art.description.v \o <<".", ".", ".">>,
     sentiment |-> "Neutral",
     impact_score |-> 5]

\* lines 83-90: the result built locally when the model call raised
FailureResult(art) ==
    [summary |-> Slice(art.description.v, 200) \o <<".", ".", ".">>,
     sentiment |-> "Neutral",
     impact_score |-> 5]

\* line 21 and line 83: the class each except clause of analyze_article names
ConfigureExcept == "Exception"
GenerateExcept  == "Exception"

\* AnalyzeArticle with a second model.generate_content call after the first
\* one raised
AnalyzeArticleRetrying(art, r) ==
    IF r.kind = "config_error"
    THEN [ret |-> None,
          diags |-> <<[level |-> "error", text |-> <<"Failed to configure Gemini API">>]>>,
          calls |-> 0, raised |-> FALSE]
    ELSE IF r.kind = "raise"
    THEN [ret |-> FailureResult(art),
          diags |-> <<[level |-> "warning", text |-> Slice(art.title.v, 50)]>>,
          calls |-> 2, raised |-> FALSE]
    ELSE IF r.text = <<>>
    THEN [ret |-> EmptyReplyResult, diags |-> <<>>, calls |-> 1, raised |-> FALSE]
    ELSE [ret |-> ParseReply(r.text), diags |-> <<>>, calls |-> 1, raised |-> FALSE]

\* What one call of analyze_article does, given what the Gemini client does:
\*   "config_error"  genai.configure or GenerativeModel raises r.exc,
\*   "raise"         model.generate_content (or reading response.text) raises r.exc,
\*   "text"          the call returns response.text = r.text.
\* ret is the returned value, diags the messages sent to st.error/st.warning,
\* calls the number of model.generate_content invocations, raised whether an
\* exception leaves the function.
AnalyzeArticle(art, r) ==
    IF r.kind = "config_error"
    THEN IF ConfigureExcept \in Bases(r.exc)
         THEN [ret |-> None,
               diags |-> <<[level |-> "error", text |-> <<"Failed to configure Gemini API">>]>>,
               calls |-> 0, raised |-> FALSE]
         ELSE [ret |-> None, diags |-> <<>>, calls |-> 0, raised |-> TRUE]
    ELSE IF r.kind = "raise"
    THEN IF GenerateExcept \in Bases(r.exc)
         THEN [ret |-> FailureResult(art),
               diags |-> <<[level |-> "warning", text |-> Slice(art.title.v, 50)]>>,
               calls |-> 1, raised |-> FALSE]
         ELSE [ret |-> None, diags |-> <<>>, calls |-> 1, raised |-> TRUE]
    ELSE IF r.text = <<>>
    THEN [ret |-> EmptyReplyResult, diags |-> <<>>, calls |-> 1, raised |-> FALSE]
    ELSE [ret |-> ParseReply(r.text), diags |-> <<>>, calls |-> 1, raised |-> FALSE]

(***************************************************************************)
(* JSON values of the search service's response, each tagged with its     *)
(* type: null is None, a string holds a text, an array a sequence, an      *)
(* object a function on its keys.                                          *)
(***************************************************************************)
Str(s)       == [t |-> "str", v |-> s]
JList(items) == [t |-> "list", v |-> items]
JDict(d)     == [t |-> "dict", v |-> d]
IsDict(x)    == x.t = "dict"
IsList(x)    == x.t = "list"

\* d.get(k, default) on a dict
Get(d, k, default) == IF k \in DOMAIN d.v THEN d.v[k] ELSE default

\* bool(x)
Truthy(x) ==
    CASE x.t = "none" -> FALSE
      [] x.t = "dict" -> DOMAIN x.v # {}
      [] OTHER        -> x.v # <<>>

\* a text of n one-character tokens, no two neighbours alike
Chars(n) == [i \in 1..n |-> ToString(i % 10)]

(***************************************************************************)
(* fetch_news's except clauses                                             *)
(***************************************************************************)
\* ExceptClauses without the last, catch-all clause
ExceptClausesNoCatchAll ==
    << [class |-> "Timeout",          text |-> <<"Request timed out. Please try again.">>],
       [class |-> "RequestException", text |-> <<"Network error">>] >>

\* lines 58-68: the except clauses in order, each with the message it reports
ExceptClauses ==
    << [class |-> "Timeout",          text |-> <<"Request timed out. Please try again.">>],
       [class |-> "RequestException", text |-> <<"Network error">>],
       [class |-> "Exception",        text |-> <<"Unexpected error fetching news">>] >>

\* What raising exc inside the try block leads to: the first clause that
\* matches reports once and returns []; with no clause the exception leaves
\* the function.
HandleFetchError(exc) ==
    LET hits == {i \in 1..Len(ExceptClauses) : ExceptClauses[i].class \in Bases(exc)}
    IN  IF hits = {}
        THEN [ret |-> <<>>, diags |-> <<>>, raised |-> TRUE]
        ELSE [ret |-> <<>>,
              diags |-> <<[level |-> "error", text |-> ExceptClauses[Min(hits)].text]>>,
              raised |-> FALSE]

(***************************************************************************)
(* fetch_news, the decorated function's body                               *)
(***************************************************************************)
\* line 46: the item has a title and a description or a content
HasContent(item) ==
    Truthy(Get(item, "title", None))
        /\ (Truthy(Get(item, "description", None)) \/ Truthy(Get(item, "content", None)))

\* lines 47-53
MakeArticle(item) ==
    [title        |-> Get(item, "title", Str(<<"Untitled">>)),
     description  |-> IF Truthy(Get(item, "description", None))
                      THEN Get(item, "description", None)
                      ELSE Str(Slice(Get(item, "content", Str(<<>>)).v, 300)),
     url          |-> Get(item, "link", Str(<<"#">>)),
     source       |-> Get(item, "source_id", Str(<<"Unknown">>)),
     published_at |-> Get(item, "pubDate", Str(<<>>))]

RECURSIVE ExtractArticles(_, _)
\* lines 43-56: the loop over the result items. An item that is no object
\* has no get: the AttributeError leaves the loop.
ExtractArticles(items, found) ==
    IF items = <<>> THEN [ok |-> TRUE, articles |-> found]
    ELSE LET item == Head(items)
         IN  IF ~IsDict(item) THEN [ok |-> FALSE, exc |-> "AttributeError"]
             ELSE IF HasContent(item)
             THEN ExtractArticles(Tail(items), Append(found, MakeArticle(item)))
             ELSE ExtractArticles(Tail(items), found)

\* for item in results: a list yields its elements, a dict its keys (strings)
IterItems(results) ==
    IF IsList(results) THEN results.v
    ELSE LET keys == DOMAIN results.v
         IN  IF keys = {} THEN <<>> ELSE <<Str(<<CHOOSE k \in keys : TRUE>>)>>

\* What one execution of the body does, given what the search service does:
\*   "raise"  requests.get, raise_for_status or response.json raises u.exc,
\*   "json"   response.json() returns u.data.
FetchNewsBody(u) ==
    IF u.kind = "raise" THEN HandleFetchError(u.exc)
    ELSE IF ~IsDict(u.data) THEN HandleFetchError("AttributeError")
    ELSE IF Get(u.data, "status", None) # Str(<<"success">>)
    THEN LET results == Get(u.data, "results", JDict(<<>>))
         IN  IF ~IsDict(results) THEN HandleFetchError("AttributeError")
             ELSE [ret |-> <<>>,
                   diags |-> <<[level |-> "error",
                                text |-> <<"API Error">>
                                    \o Get(results, "message", Str(<<"Unknown error">>)).v]>>,
                   raised |-> FALSE]
    ELSE LET results == Get(u.data, "results", JList(<<>>))
         IN  IF results.t \notin {"list", "dict"} THEN HandleFetchError("TypeError")
             ELSE LET r == ExtractArticles(IterItems(results), <<>>)
                  IN  IF r.ok
                      THEN [ret |-> r.articles, diags |-> <<>>, raised |-> FALSE]
                      ELSE HandleFetchError(r.exc)
(***************************************************************************)
(* Inputs.                                                                 *)
(***************************************************************************)
\* every sequence over S of length at most n
SeqsUpTo(S, n) == UNION {[1..k -> S] : k \in 0..n}

\* replies longer than MaxReplyLen: the layout the prompt asks for, with an
\* out-of-range score, and two untidy ones
LongReplies ==
    { <<"SUMMARY:", "\n", "mixed", "\n", "-", "\n", "SENTIMENT:", "\n", "positive",
        "\n", "IMPACT_SCORE:", "\n", "15">>,
      <<"summary:", "\n", "\n", "SENTIMENT:", "Tense", "7", "Impact Score:", "0", "7">>,
      <<"\n", "SUMMARY:", "\n", "SENTIMENT:", "\n", "SENTIMENT:", "-", "SENTIMENT:",
        "NEGATIVE", "\n">> }

\* the replies of at most n tokens, and the long ones
ReplyTexts(n) == SeqsUpTo(Tokens, n) \cup LongReplies

\* what the Gemini client can do in one call of analyze_article, with
\* replies of at most n tokens
GeminiOutcomes(n) ==
    {[kind |-> k, exc |-> e] :
        k \in {"config_error", "raise"}, e \in {"ResourceExhausted", "ValueError"}}
        \cup {[kind |-> "text", text |-> t] : t \in ReplyTexts(n)}

\* an Article as fetch_news builds it, with a title of m and a description
\* of n characters
ArticleOf(m, n) ==
    [title        |-> Str(Chars(m)),
     description  |-> Str(Chars(n)),
     url          |-> Str(<<"#">>),
     source       |-> Str(<<"Unknown">>),
     published_at |-> Str(<<>>)]

\* lengths on both sides of the two slices of lines 84 and 87
TestArticles == {ArticleOf(1, 1), ArticleOf(50, 200), ArticleOf(51, 201)}

\* the value of one key of a result item; Missing: the item has no such key
Missing == [t |-> "missing"]
Field(k, x) == IF x = Missing THEN <<>> ELSE [i \in {k} |-> x]

TitleValues       == {Missing, Str(<<>>), Str(<<"A">>), Str(<<"B">>)}
DescriptionValues == {Missing, Str(<<>>), Str(<<"d">>)}
ContentValues     == {Missing, Str(Chars(301))}
LinkValues        == {Missing, Str(<<"h">>)}

\* the elements of a results array: objects, and null
ResultItems ==
    { JDict(Merge(Merge(Field("title", ti), Field("description", de)),
                  Merge(Field("content", co), Field("link", li)))) :
        ti \in TitleValues, de \in DescriptionValues,
        co \in ContentValues, li \in LinkValues }
    \cup {None}

\* the values of the key results: none, null, an error object with or
\* without a message, an array of at most n elements
ResultsValues(n) ==
    {Missing, None, JDict(<<>>), JDict([message |-> Str(<<"bad key">>)])}
        \cup {JList(l) : l \in SeqsUpTo(ResultItems, n)}

\* the document response.json() returns
Document(st, re) == JDict(Merge(Field("status", st), Field("results", re)))

\* What the search service can do in one execution of fetch_news's body,
\* with results arrays of at most n elements: the request, the status check
\* or the decoding raises; the document is null; the document says success;
\* the document says something else (where the elements of an array play no
\* part, so one element is enough).
SearchOutcomes(n) ==
    {[kind |-> "raise", exc |-> e] :
        e \in {"Timeout", "ConnectionError", "HTTPError", "ValueError"}}
        \cup {[kind |-> "json", data |-> None]}
        \cup {[kind |-> "json", data |-> Document(Str(<<"success">>), re)] :
                  re \in ResultsValues(n)}
        \cup {[kind |-> "json", data |-> Document(st, re)] :
                  st \in {Missing, Str(<<"error">>)}, re \in ResultsValues(1)}

NotRun == [t |-> "notrun"]

vars ==
    <<article, reply, analysis, upstream, fetched, pc, caller, articles, idx,
      analyzed, outcomes, genCalls, cache, lastExec, call, requests, runs>>

unitVars == <<article, reply, analysis, upstream, fetched>>
loopVars == <<caller, articles, idx, analyzed, outcomes, genCalls>>
appVars  == <<cache, lastExec, call, requests, runs>>

\* the variables of the loop and of the application, where they play no part
LoopUnused ==
    /\ caller = "none" /\ articles = <<>> /\ idx = 0
    /\ analyzed = <<>> /\ outcomes = <<>> /\ genCalls = <<>>

AppUnused ==
    /\ cache = NotRun /\ lastExec = NotRun /\ call = NotRun
    /\ requests = 0 /\ runs = 0

UnitUnused ==
    /\ article = NotRun /\ reply = NotRun /\ analysis = NotRun
    /\ upstream = NotRun /\ fetched = NotRun

(***************************************************************************)
(* analyze_article alone: one call on any article and any outcome.         *)
(***************************************************************************)
InitAnalyze ==
    /\ article \in TestArticles
    /\ reply \in GeminiOutcomes(MaxReplyLen)
    /\ analysis = NotRun
    /\ upstream = NotRun
    /\ fetched = NotRun
    /\ pc = "start"
    /\ LoopUnused
    /\ AppUnused

Analyze ==
    /\ pc = "start"
    /\ analysis' = AnalyzeArticle(article, reply)
    /\ pc' = "done"
    /\ UNCHANGED <<article, reply, upstream, fetched, loopVars, appVars>>

NextAnalyze == Analyze

SpecAnalyze == InitAnalyze /\ [][NextAnalyze]_vars

(***************************************************************************)
(* fetch_news's body alone: one execution on any outcome of the request.   *)
(***************************************************************************)
InitFetch ==
    /\ upstream \in SearchOutcomes(MaxResults)
    /\ fetched = NotRun
    /\ article = NotRun
    /\ reply = NotRun
    /\ analysis = NotRun
    /\ pc = "start"
    /\ LoopUnused
    /\ AppUnused

Fetch ==
    /\ pc = "start"
    /\ fetched' = FetchNewsBody(upstream)
    /\ pc' = "done"
    /\ UNCHANGED <<article, reply, analysis, upstream, loopVars, appVars>>

NextFetch == Fetch

SpecFetch == InitFetch /\ [][NextFetch]_vars
(***************************************************************************)
(* Properties of analyze_article (under SpecAnalyze).                      *)
(***************************************************************************)
Returned == pc = "done" /\ analysis # NotRun /\ ~analysis.raised /\ analysis.ret # None

CanonicalSentiments == {"Positive", "Negative", "Tense", "Neutral"}

\* C2: every result analyze_article returns, on each of its returning paths
\* (reply parsed, empty reply, model call raised), carries one of the four
\* capitalized sentiments.
C2_SentimentCanonical ==
    Returned => analysis.ret.sentiment \in CanonicalSentiments

\* the reply is exactly an IMPACT_SCORE marker, optional whitespace, digit token d
IsScoreReply(d) ==
    /\ reply.kind = "text"
    /\ \E m \in ImpactMarkers : reply.text \in {<<m, d>>, <<m, "\n", d>>}

\* C3: the impact score of every returned result is an integer in 1..10; a
\* parsed 15 gives 10, 0 gives 1, 7 gives 7; a reply without an impact marker
\* or without digits, an empty reply and a failed call give 5.
C3_ImpactScoreClamped ==
    Returned =>
       /\ analysis.ret.impact_score \in 1..10
       /\ IsScoreReply("15") => analysis.ret.impact_score = 10
       /\ IsScoreReply("0")  => analysis.ret.impact_score = 1
       /\ IsScoreReply("7")  => analysis.ret.impact_score = 7
       /\ reply.kind = "raise" => analysis.ret.impact_score = 5
       /\ (reply.kind = "text"
             /\ \/ \A i \in 1..Len(reply.text) : reply.text[i] \notin DigitTokens
                \/ \A i \in 1..Len(reply.text) : reply.text[i] \notin ImpactMarkers)
          => analysis.ret.impact_score = 5

C3_Witness ==
    Returned /\ IsScoreReply("15") /\ analysis.ret.impact_score = 10

\* C4: when the model call raises, analyze_article raises nothing and returns
\* a result with sentiment Neutral, impact score 5 and, as summary, the first
\* 200 characters of the description followed by "...".
C4_FailureFallback ==
    (pc = "done" /\ reply.kind = "raise") =>
       LET d == article.description.v
           n == IF Len(d) < 200 THEN Len(d) ELSE 200
       IN  /\ ~analysis.raised
           /\ analysis.ret # None
           /\ analysis.ret.sentiment = "Neutral"
           /\ analysis.ret.impact_score = 5
           /\ Len(analysis.ret.summary) = n + 3
           /\ \A i \in 1..n : analysis.ret.summary[i] = d[i]
           /\ \A i \in (n + 1)..(n + 3) : analysis.ret.summary[i] = "."

C4_Witness ==
    /\ pc = "done" /\ reply.kind = "raise"
    /\ Len(article.description.v) > 200
    /\ Len(analysis.ret.summary) = 203

\* the summary as the claim words it: the text after the first SUMMARY:
\* marker up to the next SENTIMENT: marker or the end, trimmed; the fallback
\* when there is no SUMMARY: marker
ClaimedSummary(text) ==
    LET ms == {p \in 1..Len(text) : text[p] \in SummaryMarkers}
        p == Min(ms)
        stops == {k \in (p + 1)..Len(text) : text[k] \in SentimentMarkers}
        k == IF stops = {} THEN Len(text) + 1 ELSE Min(stops)
    IN  IF ms = {} THEN <<"Summary not available.">>
        ELSE Strip(SubSeq(text, p + 1, k - 1))

\* C9: for every non-empty reply the summary is the trimmed text between the
\* first SUMMARY: marker and the next SENTIMENT: marker (or the end), never
\* including that marker, also when nothing stands between them.
C9_SummaryBetweenMarkers ==
    (pc = "done" /\ reply.kind = "text" /\ reply.text # <<>>) =>
        analysis.ret.summary = ClaimedSummary(reply.text)

(***************************************************************************)
(* Properties of fetch_news's body (under SpecFetch).                      *)
(***************************************************************************)
\* the request or the parse of its response fails: the request raises, the
\* document is no object, its status is not "success", its results cannot be
\* iterated, or an element of results is no object
FetchFails(u) ==
    \/ u.kind = "raise"
    \/ u.data.t # "dict"
    \/ "status" \notin DOMAIN u.data.v
    \/ u.data.v.status # Str(<<"success">>)
    \/ /\ "results" \in DOMAIN u.data.v
       /\ LET res == u.data.v.results
          IN  \/ res.t \notin {"list", "dict"}
              \/ res.t = "dict" /\ DOMAIN res.v # {}
              \/ res.t = "list" /\ \E i \in 1..Len(res.v) : res.v[i].t # "dict"

\* C6: fetch_news never raises; on every failure path it returns the empty
\* sequence and reports exactly one diagnostic, and on success it reports none.
C6_FetchNeverRaises ==
    pc = "done" /\ fetched # NotRun =>
       /\ ~fetched.raised
       /\ FetchFails(upstream) => fetched.ret = <<>> /\ Len(fetched.diags) = 1
       /\ ~FetchFails(upstream) => fetched.diags = <<>>

C6_Witness ==
    /\ pc = "done" /\ fetched # NotRun
    /\ upstream.kind = "raise" /\ upstream.exc = "Timeout"
    /\ fetched.ret = <<>> /\ Len(fetched.diags) = 1 /\ ~fetched.raised

\* the item has a non-empty title and a non-empty description or content
Qualifies(item) ==
    /\ item.t = "dict"
    /\ "title" \in DOMAIN item.v /\ item.v.title.t = "str" /\ item.v.title.v # <<>>
    /\ \E k \in {"description", "content"} :
          k \in DOMAIN item.v /\ item.v[k].t = "str" /\ item.v[k].v # <<>>

\* the response is a document with status "success" and a results array
SuccessResponse(u) ==
    /\ u.kind = "json" /\ u.data.t = "dict"
    /\ "status" \in DOMAIN u.data.v /\ u.data.v.status = Str(<<"success">>)
    /\ "results" \in DOMAIN u.data.v /\ u.data.v.results.t = "list"

\* the elements of a sequence that satisfy Qualifies, in order
QualifyingItems(items) == SelectSeq(items, Qualifies)

\* C7: on a successful response fetch_news emits an Article for an item
\* exactly when the item qualifies, in upstream order, and every emitted
\* Article has a non-empty title and a non-empty description.
C7_EmitsExactlyQualifying ==
    (pc = "done" /\ fetched # NotRun /\ SuccessResponse(upstream)) =>
       LET want == QualifyingItems(upstream.data.v.results.v)
       IN  /\ Len(fetched.ret) = Len(want)
           /\ \A i \in 1..Len(want) : fetched.ret[i].title = want[i].v.title
           /\ \A i \in 1..Len(fetched.ret) :
                 /\ fetched.ret[i].title.v # <<>>
                 /\ fetched.ret[i].description.v # <<>>
(***************************************************************************)
(* The loop over the articles: batch_analyze_articles (lines 104-114) and  *)
(* the analysis section of main (app.py lines 199-210).                    *)
(***************************************************************************)
\* the outcomes the loop's calls of analyze_article are drawn from: each kind
\* of outcome, with a tidy and an untidy reply
LoopOutcomes ==
    { [kind |-> "config_error", exc |-> "ValueError"],
      [kind |-> "raise", exc |-> "ResourceExhausted"],
      [kind |-> "text", text |-> <<>>],
      [kind |-> "text", text |-> <<"SUMMARY:", "\n", "mixed", "\n", "-", "\n", "SENTIMENT:",
                                   "\n", "positive", "\n", "IMPACT_SCORE:", "\n", "15">>],
      [kind |-> "text", text |-> <<"mixed">>] }

\* AppendAnalyzed that puts the new record first
AppendAnalyzedFirst(out, art, ret) ==
    IF ret # None THEN <<Merge(art, ret)>> \o out ELSE out

\* lines 107-112 (app.py 205-209): if analysis: analyzed.append({**article, **analysis})
AppendAnalyzed(out, art, ret) ==
    IF ret # None THEN Append(out, Merge(art, ret)) ELSE out

\* one iteration: analyze the next article and keep the merged record if
\* there is a result; an exception leaving analyze_article leaves the loop
LoopStep(o) ==
    LET art == articles[idx + 1]
        r   == AnalyzeArticle(art, o)
    IN  /\ outcomes' = Append(outcomes, o)
        /\ genCalls' = genCalls \o [i \in 1..r.calls |-> idx + 1]
        /\ IF r.raised
           THEN pc' = "crashed" /\ UNCHANGED <<idx, analyzed>>
           ELSE /\ analyzed' = AppendAnalyzed(analyzed, art, r.ret)
                /\ idx' = idx + 1
                /\ pc' = pc
        /\ UNCHANGED <<caller, articles>>

\* batch_analyze_articles, lines 106-112
BatchStep ==
    /\ pc = "analyzing" /\ caller = "batch" /\ idx < Len(articles)
    /\ \E o \in LoopOutcomes : LoopStep(o)
    /\ UNCHANGED <<unitVars, appVars>>

\* batch_analyze_articles, line 114: return analyzed
BatchReturn ==
    /\ pc = "analyzing" /\ caller = "batch" /\ idx = Len(articles)
    /\ pc' = "done"
    /\ UNCHANGED <<unitVars, loopVars, appVars>>

\* main, app.py lines 202-210
MainStep ==
    /\ pc = "analyzing" /\ caller = "main" /\ idx < Len(articles)
    /\ \E o \in LoopOutcomes : LoopStep(o)
    /\ UNCHANGED <<unitVars, appVars>>

\* main, app.py lines 212 to the end: the results are shown (or the error, if
\* there are none) and the script waits for the next button press
MainFinish ==
    /\ pc = "analyzing" /\ caller = "main" /\ idx = Len(articles)
    /\ pc' = "idle"
    /\ UNCHANGED <<unitVars, loopVars, appVars>>

ArticleA == [ArticleOf(1, 1) EXCEPT !.title = Str(<<"A">>)]
ArticleB == [ArticleOf(1, 201) EXCEPT !.title = Str(<<"B">>)]

\* main enters its loop only with a non-empty sequence (app.py line 192)
InitLoop ==
    /\ caller \in {"batch", "main"}
    /\ articles \in SeqsUpTo({ArticleA, ArticleB}, MaxArticles)
    /\ caller = "main" => articles # <<>>
    /\ idx = 0 /\ analyzed = <<>> /\ outcomes = <<>> /\ genCalls = <<>>
    /\ pc = "analyzing"
    /\ UnitUnused
    /\ AppUnused

NextLoop == BatchStep \/ BatchReturn \/ MainStep \/ MainFinish

SpecLoop == InitLoop /\ [][NextLoop]_vars
(***************************************************************************)
(* Properties of the loop (under SpecLoop).                                *)
(***************************************************************************)
InLoop == caller # "none" /\ pc # "crashed"

\* what analyze_article returned for the i-th article
ResultOf(i) == AnalyzeArticle(articles[i], outcomes[i]).ret

\* the indices up to idx, in order, that satisfy Test
IndicesWhere(Test(_)) == SelectSeq([i \in 1..idx |-> i], Test)

\* C5: the loop's output is its input filtered in place: in input order, the
\* records of exactly the articles for which analyze_article returned a
\* result, each the article merged with its result; it is never longer than
\* the input.
C5_StableFilter ==
    InLoop =>
       LET HasResult(i) == ResultOf(i) # None
           kept == IndicesWhere(HasResult)
       IN  /\ Len(outcomes) = idx
           /\ analyzed = [j \in 1..Len(kept) |-> Merge(articles[kept[j]], ResultOf(kept[j]))]
           /\ Len(analyzed) <= Len(articles)

C5_Witness ==
    /\ pc = "done" /\ Len(articles) = 3 /\ Len(analyzed) = 2
    /\ outcomes[2].kind = "config_error"
    /\ analyzed[1].title = articles[1].title
    /\ analyzed[2].title = articles[3].title
    /\ articles[1].title # articles[3].title

\* C8 as stated: the trace of model invocations is the input sequence, one
\* invocation for each article gone through, in input order.
C8_OneAttemptEach ==
    InLoop => genCalls = [i \in 1..idx |-> i]

\* C8 as amended: the trace of model invocations is, in input order, one
\* invocation for each article gone through whose configuration succeeded,
\* and none for an article whose configuration failed; no article is tried
\* twice.
C8_OneAttemptPerConfigured ==
    InLoop =>
       LET Configured(i) == outcomes[i].kind # "config_error"
       IN  /\ Len(outcomes) = idx
           /\ genCalls = IndicesWhere(Configured)

C8_Witness ==
    /\ pc = "done" /\ Len(articles) = 3
    /\ outcomes[1].kind = "raise"
    /\ outcomes[2].kind = "config_error"
    /\ genCalls = <<1, 3>>
(***************************************************************************)
(* The application: main's analysis section, run at each press of the      *)
(* button, with fetch_news behind st.cache_data(ttl=3600).                 *)
(***************************************************************************)
\* line 5: the time to live of a cache entry, in seconds
TTL == 3600

\* the topics offered (app.py line 172), two of them
Queries == {"Defence", "Technology"}

\* the argument tuples of main's call fetch_news(search_query, NEWS_API_KEY,
\* max_results=10) (app.py line 190): st.cache_data keys an entry by all
\* the arguments
CacheKey(query) == <<query, "NEWS_API_KEY", 10>>
CacheKeys == {CacheKey(q) : q \in Queries}

\* the seconds that pass between two events, chosen to land on both sides of
\* the time to live
Delays == {1799, 1800}

ItemA    == JDict([title |-> Str(<<"A">>), description |-> Str(<<"d">>)])
ItemB    == JDict([title |-> Str(<<"B">>), content |-> Str(Chars(301))])
ItemBare == JDict([title |-> Str(<<"A">>)])

\* the outcomes the application's requests are drawn from: each failure
\* path and three successful responses
AppSearchOutcomes ==
    { [kind |-> "raise", exc |-> "Timeout"],
      [kind |-> "raise", exc |-> "ConnectionError"],
      [kind |-> "json", data |-> JDict([status |-> Str(<<"error">>),
                                        results |-> JDict([message |-> Str(<<"bad key">>)])])],
      [kind |-> "json", data |-> JDict([status |-> Str(<<"success">>),
                                        results |-> JList(<<ItemA, None>>)])],
      [kind |-> "json", data |-> JDict([status |-> Str(<<"success">>),
                                        results |-> JList(<<ItemA, ItemBare, ItemB>>)])],
      [kind |-> "json", data |-> JDict([status |-> Str(<<"success">>),
                                        results |-> JList(<<ItemB>>)])] }

\* EntryValid that still serves an entry at the very end of its time to live
EntryValidInclusive(entry) == entry # None /\ entry.age <= TTL

\* line 5: an entry is served while it is younger than the time to live
EntryValid(entry) == entry # None /\ entry.age < TTL

\* lines 5-6: fetch_news as decorated. A valid entry for the arguments is
\* returned without running the body; otherwise the body runs, with u what
\* the search service then does, and its return value is stored, whatever
\* path returned it. An exception leaving the body stores nothing.
CachedFetchNews(c, key, u) ==
    IF EntryValid(c[key])
    THEN [ret |-> c[key].value, requested |-> FALSE, raised |-> FALSE, cache |-> c]
    ELSE LET r == FetchNewsBody(u)
         IN  [ret |-> r.ret, requested |-> TRUE, raised |-> r.raised,
              cache |-> IF r.raised THEN c
                        ELSE [c EXCEPT ![key] = [value |-> r.ret, age |-> 0]]]

\* the age of an entry d seconds later; an entry past its time to live is
\* kept at TTL, being expired for good
Older(entry, d) ==
    IF entry = None THEN None
    ELSE [entry EXCEPT !.age = IF entry.age + d < TTL THEN entry.age + d ELSE TTL]

InitApp ==
    /\ cache = [k \in CacheKeys |-> None]
    /\ lastExec = [k \in CacheKeys |-> None]
    /\ call = NotRun
    /\ requests = 0
    /\ runs = 0
    /\ pc = "idle"
    /\ caller = "main"
    /\ articles = <<>> /\ idx = 0 /\ analyzed = <<>>
    /\ outcomes = <<>> /\ genCalls = <<>>
    /\ UnitUnused

\* time passes while the script waits for the button
Tick ==
    /\ pc = "idle"
    /\ \E d \in Delays :
          /\ cache' = [k \in CacheKeys |-> Older(cache[k], d)]
          /\ lastExec' = [k \in CacheKeys |-> Older(lastExec[k], d)]
    /\ UNCHANGED <<unitVars, loopVars, pc, call, requests, runs>>

\* app.py lines 187-201: the button is pressed with a query; fetch_news is
\* called; with no articles main reports and returns, otherwise the loop
\* starts on an empty output
MainFetch ==
    /\ pc = "idle" /\ runs < MaxRuns
    /\ \E q \in Queries, u \in AppSearchOutcomes :
          LET key == CacheKey(q)
              r   == CachedFetchNews(cache, key, u)
          IN  /\ cache' = r.cache
              /\ requests' = IF r.requested THEN requests + 1 ELSE requests
              /\ lastExec' = IF r.requested
                             THEN [lastExec EXCEPT ![key] =
                                      [value |-> r.ret, age |-> 0, failed |-> FetchFails(u)]]
                             ELSE lastExec
              /\ call' = [key |-> key, ret |-> r.ret, requested |-> r.requested,
                          upstream |-> IF r.requested THEN u ELSE NotRun]
              /\ runs' = runs + 1
              /\ articles' = r.ret
              /\ idx' = 0 /\ analyzed' = <<>> /\ outcomes' = <<>> /\ genCalls' = <<>>
              /\ pc' = IF r.raised THEN "crashed"
                       ELSE IF r.ret = <<>> THEN "idle" ELSE "analyzing"
    /\ UNCHANGED <<unitVars, caller>>

Next == Tick \/ MainFetch \/ MainStep \/ MainFinish

Spec == InitApp /\ [][Next]_vars
(***************************************************************************)
(* Properties of the application (under Spec).                             *)
(***************************************************************************)
\* the loop has gone through every article it has been given so far, none
\* of its analyses stopped it, and each analysis that gave a result is in
\* the output
AnalysisIsolated ==
    /\ pc # "crashed"
    /\ Len(outcomes) = idx
    /\ pc = "idle" => idx = Len(articles)
    /\ LET HasResult(i) == ResultOf(i) # None
       IN  Len(analyzed) = Len(IndicesWhere(HasResult))

\* every item of a successful response that qualifies is in what the body
\* of fetch_news returned for it
FetchIsolated ==
    (call # NotRun /\ call.requested /\ SuccessResponse(call.upstream)) =>
        LET want == QualifyingItems(call.upstream.data.v.results.v)
        IN  /\ Len(call.ret) = Len(want)
            /\ \A i \in 1..Len(want) : call.ret[i].title = want[i].v.title

\* C1: a failure on one result item or on one article never stops the work
\* on the others: the other items that qualify are in fetch_news's output,
\* and the other articles are analyzed and, with a result, are in the
\* loop's output.
C1_PartialFailureIsolation == FetchIsolated /\ AnalysisIsolated

====
